---- MODULE Spec2Model ----
(***************************************************************************)
(* named-react-router: the route-name registry (namedRoutesMap), the tree  *)
(* walk that fills it (collectRouteNames), named navigation                *)
(* (useNamedNavigate) and reverse lookup (useNamedLocation).               *)
(*                                                                         *)
(* Representation.  A JavaScript string that the code inspects character   *)
(* by character (a path, a query key or value) is a sequence of            *)
(* one-character strings; a string that is only compared or used as a map  *)
(* key (a route name, a positional id) is a TLA+ string.  An optional      *)
(* value is a sequence of length at most one: <<>> is undefined, <<v>> is  *)
(* the value v.                                                            *)
(***************************************************************************)
EXTENDS Integers, Sequences, FiniteSets, TLC

None == <<>>
Some(v) == <<v>>

(***************************************************************************)
(* JavaScript primitives used by the source.                               *)
(***************************************************************************)
\* String.prototype.startsWith / endsWith with a one-character argument.
startsWith(s, c) == Len(s) > 0 /\ s[1] = c
endsWith(s, c) == Len(s) > 0 /\ s[Len(s)] = c

\* The string `+` makes of its right operand: undefined becomes "undefined".
ToStr(opt) ==
  IF opt = None THEN <<"u", "n", "d", "e", "f", "i", "n", "e", "d">> ELSE opt[1]

\* Truthiness of an optional string: undefined and "" are falsy.
TruthyName(opt) == opt # None /\ opt[1] # ""

\* Map.prototype.get / set on a map represented as a function.
MapHas(map, k) == k \in DOMAIN map
MapSet(map, k, v) == [x \in (DOMAIN map) \cup {k} |-> IF x = k THEN v ELSE map[x]]
EmptyMap == [x \in {} |-> None]

(***************************************************************************)
(* NamedRouteObject and the route trees the application may declare.       *)
(***************************************************************************)
Route(name, path, children) == [name |-> name, path |-> path, children |-> children]

\* Path strings that occur in the declared trees.
pEmpty == <<>>
pSlash == <<"/">>
pAbout == <<"a", "b", "o", "u", "t">>
pTeam == <<"t", "e", "a", "m">>
pTeamId == <<"t", "e", "a", "m", "/", ":", "i", "d">>
pX == <<"x">>
pY == <<"y">>
pAbsY == <<"/", "y">>
pZSlash == <<"z", "/">>
pAbsXSlash == <<"/", "x", "/">>

\* README "Create a Named Router": home("") > about("about") > team("team").
ReadmeTree ==
  << Route(Some("home"), Some(pEmpty),
       << Route(Some("about"), Some(pAbout),
            << Route(Some("team"), Some(pTeam), <<>>) >>) >>) >>

\* The JSDoc example of createNamedBrowserRouter: the leaf is "team/:id".
JsDocTree ==
  << Route(Some("home"), Some(pEmpty),
       << Route(Some("about"), Some(pAbout),
            << Route(Some("team"), Some(pTeamId), <<>>) >>) >>) >>

\* README "Declarative Routing": the root declares "/".
SlashRootTree ==
  << Route(Some("home"), Some(pSlash),
       << Route(Some("about"), Some(pAbout),
            << Route(Some("team"), Some(pTeamId), <<>>) >>) >>) >>

\* Two siblings declaring the same name.
DupTree ==
  << Route(Some("a"), Some(pX), <<>>), Route(Some("a"), Some(pAbsY), <<>>) >>

\* Two nodes named "a" and a third, uniquely named node whose name reads like
\* the positional id of the first.
DupPosTree ==
  << Route(Some("a"), Some(pX), <<>>),
     Route(Some("a"), Some(pY), <<>>),
     Route(Some("0"), Some(pZSlash), <<>>) >>

\* Unique names; the first node's name reads like the id of the second.
PosNameTree ==
  << Route(Some("1"), Some(pX), <<>>), Route(Some("b"), Some(pAbsY), <<>>) >>

\* An unnamed first node and a second node named like the id of the first.
UnnamedFirstTree ==
  << Route(None, Some(pX), <<>>), Route(Some("0"), Some(pZSlash), <<>>) >>

\* An unnamed parent with a named index child (empty declared path).
IndexChildTree ==
  << Route(None, Some(pX), << Route(Some("b"), Some(pEmpty), <<>>) >>) >>

\* A parent ending in the separator, a relative child and an absolute override.
OverrideTree ==
  << Route(Some("a"), Some(pAbsXSlash),
       << Route(Some("b"), Some(pY), <<>>),
          Route(Some("c"), Some(pAbsY), << Route(Some("d"), Some(pX), <<>>) >>) >>) >>

\* A pathless layout node (no path at all) above a named child.
PathlessTree ==
  << Route(Some("layout"), None, << Route(Some("a"), Some(pX), <<>>) >>) >>

\* README "<NamedRoutes/>": two top-level routes, the first declaring "/".
ApiTree ==
  << Route(Some("home"), Some(pSlash), <<>>), Route(Some("about"), Some(pAbout), <<>>) >>

\* The same two routes with the first one an index route (empty path).
IndexRootTree ==
  << Route(Some("home"), Some(pEmpty), <<>>), Route(Some("about"), Some(pAbout), <<>>) >>

\* The trees handed to createNamedBrowserRouter.
RouteTrees ==
  { ReadmeTree, JsDocTree, DupTree, DupPosTree, PosNameTree, UnnamedFirstTree,
    IndexChildTree, OverrideTree, PathlessTree }

(***************************************************************************)
(* collectRouteNames (src/lib/index.ts).  The walk threads the registry    *)
(* and the console through the forEach: st = [map, warn].                  *)
(***************************************************************************)
\* const id = !accId ? `${index}` : `${accId}-${index}`
RouteId(accId, index) ==
  IF accId = "" THEN ToString(index) ELSE accId \o "-" \o ToString(index)

\* if (route.path?.startsWith("/")) route.path else parentPath + route.path
AbsolutePath(route, parentPath) ==
  IF route.path # None /\ startsWith(route.path[1], "/")
    THEN route.path[1]
    ELSE parentPath \o ToStr(route.path)

\* if (!route.path?.endsWith("/")) absolutePath += "/"
ChildParentPath(route, absolutePath) ==
  IF ~(route.path # None /\ endsWith(route.path[1], "/"))
    THEN absolutePath \o <<"/">>
    ELSE absolutePath

\* The stored value: the route object, of which the model keeps what is read.
Descriptor(route, absolutePath) ==
  [name |-> route.name[1], absolutePath |-> absolutePath]

\* A variant that warns only when the name is held by another route.
RegisterRouteWarnOther(st, route, id, absolutePath) ==
  IF TruthyName(route.name)
    THEN [map |-> MapSet(MapSet(st.map, route.name[1], Descriptor(route, absolutePath)),
                         id, Descriptor(route, absolutePath)),
          warn |-> IF MapHas(st.map, route.name[1])
                        /\ st.map[route.name[1]] # Descriptor(route, absolutePath)
                     THEN Append(st.warn, route.name[1])
                     ELSE st.warn]
    ELSE st

\* if (route.name) { ...; warn if namedRoutesMap.get(route.name); set; set }
RegisterRoute(st, route, id, absolutePath) ==
  IF TruthyName(route.name)
    THEN [map |-> MapSet(MapSet(st.map, route.name[1], Descriptor(route, absolutePath)),
                         id, Descriptor(route, absolutePath)),
          warn |-> IF MapHas(st.map, route.name[1])
                     THEN Append(st.warn, route.name[1])
                     ELSE st.warn]
    ELSE st

RECURSIVE collectFrom(_, _, _, _, _)
\* routes.forEach from position i (1-based; the source's index is i - 1).
collectFrom(st, routes, i, parentPath, accId) ==
  IF i > Len(routes) THEN st
  ELSE LET route == routes[i]
           id == RouteId(accId, i - 1)
           absolutePath == AbsolutePath(route, parentPath)
           st1 == RegisterRoute(st, route, id, absolutePath)
           st2 == collectFrom(st1, route.children, 1,
                              ChildParentPath(route, absolutePath), id)
       IN collectFrom(st2, routes, i + 1, parentPath, accId)

\* collectRouteNames(routes) with the default parentPath = "" and accId = "".
collectRouteNames(map, routes) ==
  collectFrom([map |-> map, warn |-> <<>>], routes, 1, <<>>, "")

(***************************************************************************)
(* The router's primitives used by namedNavigateFunction.                  *)
(***************************************************************************)
\* [\w-]: the characters of a dynamic segment's key, within the model's alphabet.
NonWordChars == {"/", ":", "?", "&", "=", " ", "%", "+"}
IsKeyChar(c) == c \notin NonWordChars

RECURSIVE SplitSegments(_, _, _)
\* path.split(/\/+/) followed by the removal of the empty segments: the
\* maximal runs of characters other than "/", in order.
SplitSegments(s, i, cur) ==
  IF i > Len(s) THEN (IF cur = <<>> THEN <<>> ELSE <<cur>>)
  ELSE IF s[i] = "/"
         THEN (IF cur = <<>> THEN <<>> ELSE <<cur>>) \o SplitSegments(s, i + 1, <<>>)
         ELSE SplitSegments(s, i + 1, Append(cur, s[i]))

\* segment.match(/^:([\w-]+)(\??)$/)
IsOptionalSegment(seg) == Len(seg) >= 3 /\ seg[Len(seg)] = "?"
SegmentKey(seg) ==
  IF IsOptionalSegment(seg) THEN SubSeq(seg, 2, Len(seg) - 1) ELSE SubSeq(seg, 2, Len(seg))
IsDynamicSegment(seg) ==
  /\ Len(seg) >= 2
  /\ seg[1] = ":"
  /\ \A j \in 1..Len(SegmentKey(seg)) : IsKeyChar(SegmentKey(seg)[j])

\* params[key], with params = {} when the caller gave none.
ParamOf(params, key) ==
  IF params # None /\ key \in DOMAIN params[1] THEN Some(params[1][key]) ELSE None

RECURSIVE FillSegments(_, _, _, _)
\* The map over the segments: a dynamic segment becomes its parameter (an
\* invariant fails when a required one is missing), any other segment loses a
\* trailing "?"; empty results are dropped.
FillSegments(segs, i, params, acc) ==
  IF i > Len(segs) THEN [ok |-> TRUE, segments |-> acc, missing |-> <<>>]
  ELSE LET seg == segs[i] IN
       IF IsDynamicSegment(seg)
         THEN LET param == ParamOf(params, SegmentKey(seg)) IN
              IF param = None /\ ~IsOptionalSegment(seg)
                THEN [ok |-> FALSE, segments |-> acc, missing |-> SegmentKey(seg)]
                ELSE FillSegments(segs, i + 1, params,
                       IF param = None \/ param[1] = <<>> THEN acc ELSE Append(acc, param[1]))
         ELSE LET plain == IF seg[Len(seg)] = "?" THEN SubSeq(seg, 1, Len(seg) - 1) ELSE seg
              IN FillSegments(segs, i + 1, params,
                              IF plain = <<>> THEN acc ELSE Append(acc, plain))

RECURSIVE JoinWith(_, _)
JoinWith(segs, sep) ==
  IF segs = <<>> THEN <<>>
  ELSE IF Len(segs) = 1 THEN segs[1]
  ELSE segs[1] \o <<sep>> \o JoinWith(Tail(segs), sep)

\* generatePath(path, params) of react-router-dom (splat segments are outside
\* the model's alphabet).
generatePath(path, params) ==
  LET filled == FillSegments(SplitSegments(path, 1, <<>>), 1, params, <<>>)
      prefix == IF startsWith(path, "/") THEN <<"/">> ELSE <<>>
  IN IF filled.ok
       THEN [ok |-> TRUE, path |-> prefix \o JoinWith(filled.segments, "/")]
       ELSE [ok |-> FALSE, missing |-> filled.missing]

\* application/x-www-form-urlencoded byte serialisation of one character.
UrlEncodeChar(c) ==
  CASE c = " " -> <<"+">>
    [] c = "&" -> <<"%", "2", "6">>
    [] c = "=" -> <<"%", "3", "D">>
    [] c = "/" -> <<"%", "2", "F">>
    [] c = ":" -> <<"%", "3", "A">>
    [] c = "?" -> <<"%", "3", "F">>
    [] c = "%" -> <<"%", "2", "5">>
    [] c = "+" -> <<"%", "2", "B">>
    [] OTHER -> <<c>>

RECURSIVE UrlEncode(_)
UrlEncode(s) == IF s = <<>> THEN <<>> ELSE UrlEncodeChar(s[1]) \o UrlEncode(Tail(s))

RECURSIVE UrlSearchParamsToString(_)
\* new URLSearchParams(query).toString(): the entries, in the object's own
\* property order, as key=value joined by "&".
UrlSearchParamsToString(entries) ==
  IF entries = <<>> THEN <<>>
  ELSE UrlEncode(entries[1][1]) \o <<"=">> \o UrlEncode(entries[1][2])
       \o (IF Len(entries) > 1 THEN <<"&">> \o UrlSearchParamsToString(Tail(entries))
                               ELSE <<>>)

(***************************************************************************)
(* useNamedNavigate: isNamedTo and namedNavigateFunction.                  *)
(***************************************************************************)
\* A NamedTo object and a literal To (a path string).
NamedTo(name, params, query) == [name |-> name, params |-> params, query |-> query]
LiteralTo(path) == [pathname |-> path]

\* return !!(to as NamedTo).name
isNamedTo(to) == "name" \in DOMAIN to /\ to.name # ""

RouteNameNotFound(name) == [error |-> "Route name not found", detail |-> Some(name)]
MissingParam(key) == [error |-> "Missing param", detail |-> Some(key)]

\* if (query) { filledNamedPath += `?${new URLSearchParams(query).toString()}` }
AppendQuery(filledNamedPath, query) ==
  IF query # None
    THEN filledNamedPath \o <<"?">> \o UrlSearchParamsToString(query[1])
    ELSE filledNamedPath

\* The effect of one call: the calls made to navigate() and the error thrown.
namedNavigateFunction(map, to, options) ==
  IF isNamedTo(to)
    THEN IF MapHas(map, to.name) /\ map[to.name].absolutePath # <<>>
           THEN LET filled == generatePath(map[to.name].absolutePath, to.params) IN
                IF filled.ok
                  THEN [navigate |-> << [to |-> LiteralTo(AppendQuery(filled.path, to.query)),
                                         options |-> options] >>,
                        thrown |-> None]
                  ELSE [navigate |-> <<>>, thrown |-> Some(MissingParam(filled.missing))]
           ELSE [navigate |-> <<>>, thrown |-> Some(RouteNameNotFound(to.name))]
    ELSE [navigate |-> << [to |-> to, options |-> options] >>, thrown |-> None]

(***************************************************************************)
(* useNamedLocation.                                                       *)
(***************************************************************************)
\* useLocation(): the router's current location, opaque to this library.
CurrentLocation == [pathname |-> <<"/">>]

\* The try block.  matches = None: useMatches() throws (no data router above
\* the caller); an empty chain makes matchingRoute undefined, and reading its
\* id throws.  Otherwise: { ...location, name: route?.name }.
namedLocationTry(map, matches) ==
  IF matches = None
    THEN [thrown |-> Some([error |-> "useMatches must be used within a data router",
                           detail |-> None]),
          name |-> None]
    ELSE IF matches[1] = <<>>
           THEN [thrown |-> Some([error |-> "Cannot read properties of undefined",
                                  detail |-> None]),
                 name |-> None]
           ELSE LET id == matches[1][Len(matches[1])] IN
                [thrown |-> None,
                 name |-> IF MapHas(map, id) THEN Some(map[id].name) ELSE None]

\* A variant without the catch: what the try block throws reaches the caller.
useNamedLocationNoCatch(map, matches, production) ==
  LET try == namedLocationTry(map, matches) IN
  [location |-> CurrentLocation, name |-> try.name, warn |-> <<>>, thrown |-> try.thrown]

\* try { ... } catch (e) { warn unless production } return location
useNamedLocation(map, matches, production) ==
  LET try == namedLocationTry(map, matches) IN
  IF try.thrown = None
    THEN [location |-> CurrentLocation, name |-> try.name, warn |-> <<>>, thrown |-> None]
    ELSE [location |-> CurrentLocation, name |-> None,
          warn |-> IF production THEN <<>>
                   ELSE <<"useNamedLocation is only supported with createNamedBrowserRouter">>,
          thrown |-> None]

(***************************************************************************)
(* NamedRoutes (src/lib/components/NamedRoutes.tsx).  A React element is   *)
(* [type, props]; props.children is undefined, one element or an array.    *)
(***************************************************************************)
NoChildren == None
OneChild(e) == Some([isArray |-> FALSE, items |-> <<e>>])
ManyChildren(es) == Some([isArray |-> TRUE, items |-> es])

Element(type, name, path, children) ==
  [type |-> type, props |-> [name |-> name, path |-> path, children |-> children]]

RECURSIVE ElementsOf(_), ElementItems(_, _)
\* The JSX that declares the routes of a tree: React hands a single child as
\* the element itself and several children as an array.
ElementsOf(routes) ==
  IF Len(routes) = 0 THEN NoChildren
  ELSE IF Len(routes) = 1
         THEN OneChild(ElementItems(routes, 1)[1])
         ELSE ManyChildren(ElementItems(routes, 1))
ElementItems(routes, i) ==
  IF i > Len(routes) THEN <<>>
  ELSE << Element("NamedRoute", routes[i].name, routes[i].path,
                  ElementsOf(routes[i].children)) >> \o ElementItems(routes, i + 1)

RECURSIVE ValidElement(_)
\* Neither collectNamedRoutes nor renderRoute throws on the element.
ValidElement(child) ==
  /\ child.type \in {"NamedRoute", "Fragment"}
  /\ child.props.children = None
       \/ \A i \in 1..Len(child.props.children[1].items) :
            ValidElement(child.props.children[1].items[i])

RECURSIVE collectNamedRoutes(_), mapCollectNamedRoutes(_, _)
\* The NamedRouteObject of a valid element: { name, path, children: [...] }.
collectNamedRoutes(child) ==
  Route(child.props.name, child.props.path,
        IF child.props.children = None THEN <<>>
        ELSE mapCollectNamedRoutes(child.props.children[1].items, 1))
\* nestedChildren.map(collectNamedRoutes)
mapCollectNamedRoutes(items, i) ==
  IF i > Len(items) THEN <<>>
  ELSE <<collectNamedRoutes(items[i])>> \o mapCollectNamedRoutes(items, i + 1)

\* children.map(renderRoute): a TypeError when children is no array, the
\* component's own error on an element of another type.
renderNamedRoutes(children) ==
  IF children = None \/ ~children[1].isArray
    THEN Some([error |-> "children.map is not a function", detail |-> None])
    ELSE IF \E i \in 1..Len(children[1].items) : ~ValidElement(children[1].items[i])
           THEN Some([error |-> "is not of type NamedRoute or React.Fragment", detail |-> None])
           ELSE None

\* children.forEach((child) => namedRoutes.push(collectNamedRoutes(child)))
namedRoutesOf(children) == mapCollectNamedRoutes(children[1].items, 1)

(***************************************************************************)
(* Inputs.                                                                 *)
(***************************************************************************)
\* A <Fragment> grouping two named routes beside a third (no name, no path).
FragmentChildren ==
  ManyChildren(<< Element("Fragment", None, None,
                     ManyChildren(<< Element("NamedRoute", Some("a"), Some(pX), NoChildren),
                                     Element("NamedRoute", Some("b"), Some(pY), NoChildren) >>)),
                  Element("NamedRoute", Some("c"), Some(pAbsY), NoChildren) >>)

\* An element that is neither a NamedRoute nor a Fragment.
ForeignChildren ==
  ManyChildren(<< Element("NamedRoute", Some("a"), Some(pX), NoChildren),
                  Element("div", None, None, NoChildren) >>)

\* The trees that are also declared as JSX.
DeclaredAsJsx == {SlashRootTree, ApiTree, IndexRootTree}
JsxChildren == {ElementsOf(t) : t \in DeclaredAsJsx} \cup {FragmentChildren, ForeignChildren}

pId == <<"i", "d">>
p123 == <<"1", "2", "3">>
IdParams == Some([k \in {pId} |-> p123])
TabInfo == << << <<"t", "a", "b">>, <<"i", "n", "f", "o">> >> >>
TwoEntries == << << <<"q">>, <<"a", " ", "b">> >>, << <<"p">>, <<"x", "&", "y">> >> >>

NavNames == {"home", "about", "team", "a", "0", "1", "", "nope"}
NavParams == {None, IdParams}
NavQueries == {None, Some(<<>>), Some(TabInfo), Some(TwoEntries)}
Replace == Some([replace |-> TRUE])
NavTargets ==
  {NamedTo(n, None, None) : n \in NavNames}
    \cup {NamedTo(n, ps, q) : n \in {"team", "a"}, ps \in NavParams, q \in NavQueries}
    \cup {LiteralTo(pAbsY), LiteralTo(pAbout)}
\* The calls of the navigation function: its target and its options.
NavCalls ==
  {<<to, None>> : to \in NavTargets}
    \cup {<<to, Replace>> : to \in {LiteralTo(pAbsY), NamedTo("a", None, None),
                                    NamedTo("", None, None)}}

\* Matched-route chains the router may report, most specific last.
MatchChains ==
  { <<>>, <<"0">>, <<"1">>, <<"2">>, <<"0", "0-0">>, <<"0", "0-1">>,
    <<"0", "0-0", "0-0-0">> }
Matches == {None} \cup {Some(c) : c \in MatchChains}
\* The calls of useNamedLocation: the chain and whether the build is production
\* (which only the failure path reads).
LocationCalls ==
  {<<m, FALSE>> : m \in Matches} \cup {<<None, TRUE>>, <<Some(<<>>), TRUE>>}

\* How many runs of collectRouteNames a behaviour of the model contains.
MaxCollections == 2

(***************************************************************************)
(* State.                                                                  *)
(***************************************************************************)
VARIABLES
  namedRoutesMap,  \* the module-level registry
  router,          \* the routes of the router createNamedBrowserRouter returned last
  pendingEffect,   \* the children of a rendered <NamedRoutes> whose effect has not run
  collections,     \* runs of collectRouteNames so far
  declared,        \* history: the names declared by the nodes collected so far
  lastCollect,     \* history: the last run of collectRouteNames, [by, routes]
  before,          \* history: namedRoutesMap as it was when the last operation began
  out              \* what the last operation was given and what it did

vars ==
  <<namedRoutesMap, router, pendingEffect, collections, declared, lastCollect, before, out>>

RECURSIVE DeclaredNames(_)
\* The names the nodes of a tree declare.
DeclaredNames(routes) ==
  IF routes = <<>> THEN {}
  ELSE (IF routes[1].name = None THEN {} ELSE {routes[1].name[1]})
         \cup DeclaredNames(routes[1].children) \cup DeclaredNames(Tail(routes))

CollectOps == {"createNamedBrowserRouter", "NamedRoutes effect"}

Out(op, arg) ==
  [op |-> op, arg |-> arg, options |-> None, navigate |-> <<>>, thrown |-> None,
   warn |-> <<>>, ret |-> None, again |-> FALSE, pending |-> pendingEffect # None]

Init ==
  /\ namedRoutesMap = EmptyMap
  /\ router = None
  /\ pendingEffect = None
  /\ collections = 0
  /\ declared = {}
  /\ lastCollect = None
  /\ before = EmptyMap
  /\ out = [op |-> "load", arg |-> None, options |-> None, navigate |-> <<>>,
            thrown |-> None, warn |-> <<>>, ret |-> None, again |-> FALSE,
            pending |-> FALSE]

\* collectRouteNames(routes); return createBrowserRouter(routes, opts)
createNamedBrowserRouter(routes) ==
  /\ collections + (IF pendingEffect = None THEN 0 ELSE 1) < MaxCollections
  /\ LET st == collectRouteNames(namedRoutesMap, routes) IN
       /\ namedRoutesMap' = st.map
       /\ out' = [Out("createNamedBrowserRouter", routes) EXCEPT
                    !.warn = st.warn,
                    !.again = (lastCollect # None /\ lastCollect[1].routes = routes)]
  /\ router' = Some(routes)
  /\ collections' = collections + 1
  /\ declared' = declared \cup DeclaredNames(routes)
  /\ lastCollect' = Some([by |-> "createNamedBrowserRouter", routes |-> routes])
  /\ before' = namedRoutesMap
  /\ UNCHANGED pendingEffect

\* The render of <NamedRoutes>: the effect is scheduled when the render returns.
NamedRoutesRender(children) ==
  /\ pendingEffect = None
  /\ collections < MaxCollections
  /\ LET thrown == renderNamedRoutes(children) IN
       /\ out' = [Out("NamedRoutes render", children) EXCEPT !.thrown = thrown]
       /\ pendingEffect' = IF thrown = None THEN Some(children) ELSE None
  /\ before' = namedRoutesMap
  /\ UNCHANGED <<namedRoutesMap, router, collections, declared, lastCollect>>

\* useEffect(() => { children.forEach(...); collectRouteNames(namedRoutes) }, [])
NamedRoutesEffect ==
  /\ pendingEffect # None
  /\ LET routes == namedRoutesOf(pendingEffect[1])
         st == collectRouteNames(namedRoutesMap, routes) IN
       /\ namedRoutesMap' = st.map
       /\ out' = [Out("NamedRoutes effect", routes) EXCEPT
                    !.warn = st.warn,
                    !.pending = FALSE,
                    !.again = (lastCollect # None /\ lastCollect[1].routes = routes)]
  /\ pendingEffect' = None
  /\ collections' = collections + 1
  /\ declared' = declared \cup DeclaredNames(namedRoutesOf(pendingEffect[1]))
  /\ lastCollect' = Some([by |-> "NamedRoutes effect",
                          routes |-> namedRoutesOf(pendingEffect[1])])
  /\ before' = namedRoutesMap
  /\ UNCHANGED router

\* A call of the function useNamedNavigate() returns.
NamedNavigate(to, options) ==
  /\ LET r == namedNavigateFunction(namedRoutesMap, to, options) IN
       out' = [Out("navigate", to) EXCEPT
                 !.options = options, !.navigate = r.navigate, !.thrown = r.thrown]
  /\ before' = namedRoutesMap
  /\ UNCHANGED <<namedRoutesMap, router, pendingEffect, collections, declared, lastCollect>>

\* A call of useNamedLocation() while the router reports `matches`.
UseNamedLocation(matches, production) ==
  /\ LET r == useNamedLocation(namedRoutesMap, matches, production) IN
       out' = [Out("useNamedLocation", matches) EXCEPT
                 !.warn = r.warn,
                 !.thrown = r.thrown,
                 !.ret = Some([location |-> r.location, name |-> r.name])]
  /\ before' = namedRoutesMap
  /\ UNCHANGED <<namedRoutesMap, router, pendingEffect, collections, declared, lastCollect>>

Next ==
  \/ \E routes \in RouteTrees : createNamedBrowserRouter(routes)
  \/ \E children \in JsxChildren : NamedRoutesRender(children)
  \/ NamedRoutesEffect
  \/ \E call \in NavCalls : NamedNavigate(call[1], call[2])
  \/ \E call \in LocationCalls : UseNamedLocation(call[1], call[2])

Spec == Init /\ [][Next]_vars

(***************************************************************************)
(* Claims.                                                                 *)
(***************************************************************************)
\* The last operation was a named navigation (the target carries a name).
NavigatedByName == out.op = "navigate" /\ "name" \in DOMAIN out.arg

\* The registry holds exactly what one collection of `routes` into an empty
\* registry by createNamedBrowserRouter left.
OnlyCollected(routes) ==
  /\ collections = 1
  /\ lastCollect = Some([by |-> "createNamedBrowserRouter", routes |-> routes])

pAbsAbout == <<"/", "a", "b", "o", "u", "t">>
pAbsAboutTeam == <<"/", "a", "b", "o", "u", "t", "/", "t", "e", "a", "m">>

\* C1: after collecting the README tree home("") > about("about") > team("team")
\* into an empty registry, "home" resolves to "/", "about" to "/about" and
\* "team" to "/about/team", and a named navigation to each of them succeeds.
C1_ReadmeTreeResolves ==
  OnlyCollected(ReadmeTree) =>
    /\ {"home", "about", "team"} \subseteq DOMAIN namedRoutesMap
    /\ namedRoutesMap["home"].absolutePath = pSlash
    /\ namedRoutesMap["about"].absolutePath = pAbsAbout
    /\ namedRoutesMap["team"].absolutePath = pAbsAboutTeam
    /\ (NavigatedByName /\ out.arg.name \in {"home", "about", "team"})
         => (out.thrown = None /\ Len(out.navigate) = 1)

\* The query of a NamedTo counts as non-empty when it has an entry.
QueryNonEmpty(query) == query # None /\ query[1] # <<>>

\* C2: whenever a named navigation reaches the navigation primitive, the path it
\* hands over is the registered absolute path with its dynamic segments filled
\* from params, followed by "?" and the serialized query if and only if the
\* query map is non-empty (an absent or empty query appends nothing).
C2_QueryAppendedIffNonEmpty ==
  (NavigatedByName /\ isNamedTo(out.arg) /\ out.navigate # <<>>) =>
    out.navigate[1].to.pathname =
      generatePath(namedRoutesMap[out.arg.name].absolutePath, out.arg.params).path
        \o (IF QueryNonEmpty(out.arg.query)
              THEN <<"?">> \o UrlSearchParamsToString(out.arg.query[1])
              ELSE <<>>)

\* No segment of the path is a dynamic segment.
IsStaticPath(path) ==
  LET segs == SplitSegments(path, 1, <<>>) IN
  \A i \in 1..Len(segs) : ~IsDynamicSegment(segs[i])

\* C3: a named navigation, with no params and no query, to the declared name of
\* a collected node whose absolute path has no dynamic segment (a root or index
\* node with an empty declared path included) does not fail and hands the
\* navigation primitive the absolute path stored in the registry for that name.
C3_StaticRouteNavigates ==
  ( /\ NavigatedByName /\ isNamedTo(out.arg)
    /\ out.arg.params = None /\ out.arg.query = None
    /\ MapHas(namedRoutesMap, out.arg.name)
    /\ namedRoutesMap[out.arg.name].name = out.arg.name
    /\ IsStaticPath(namedRoutesMap[out.arg.name].absolutePath) )
  => out.thrown = None

\* C4: a named navigation whose name no collected node ever declared fails with
\* the route-name-not-found error, makes no call to the navigation primitive
\* and leaves the registry as it was.
C4_UndeclaredNameFails ==
  (NavigatedByName /\ isNamedTo(out.arg) /\ out.arg.name \notin declared) =>
    /\ out.thrown = Some(RouteNameNotFound(out.arg.name))
    /\ out.navigate = <<>>
    /\ namedRoutesMap = before

RECURSIVE VisitFrom(_, _, _, _, _, _)
\* The nodes of a tree in the order the walk visits them (depth first, parent
\* before children, siblings in declaration order), each with its positional
\* id, its declared name, the ids and the declared paths from the root down to
\* it, and the absolute path the walk computes for it.
VisitFrom(routes, i, parentPath, accId, ids, chain) ==
  IF i > Len(routes) THEN <<>>
  ELSE LET route == routes[i]
           id == RouteId(accId, i - 1)
           absolutePath == AbsolutePath(route, parentPath)
       IN << [id |-> id, name |-> route.name, ids |-> Append(ids, id),
              chain |-> Append(chain, route.path), absolutePath |-> absolutePath] >>
          \o VisitFrom(route.children, 1, ChildParentPath(route, absolutePath), id,
                       Append(ids, id), Append(chain, route.path))
          \o VisitFrom(routes, i + 1, parentPath, accId, ids, chain)

Visit(routes) == VisitFrom(routes, 1, <<>>, "", <<>>, <<>>)
NamedVisits(routes) == SelectSeq(Visit(routes), LAMBDA v : TruthyName(v.name))
VisitsNamed(routes, n) == SelectSeq(Visit(routes), LAMBDA v : v.name = Some(n))
TreeNames(routes) == {NamedVisits(routes)[i].name[1] : i \in 1..Len(NamedVisits(routes))}
RECURSIVE NamesOf(_)
NamesOf(visits) == IF visits = <<>> THEN <<>> ELSE <<visits[1].name[1]>> \o NamesOf(Tail(visits))

\* Exactly two nodes of the tree declare the same name: one name is declared
\* twice and every other name once.
ExactlyOneDuplicate(routes, n) ==
  /\ Len(VisitsNamed(routes, n)) = 2
  /\ \A m \in TreeNames(routes) \ {n} : Len(VisitsNamed(routes, m)) = 1

\* The last operation collected a tree into the empty registry.
CollectedIntoEmpty == out.op \in CollectOps /\ before = EmptyMap

\* C5: collecting into an empty registry a tree in which exactly two nodes
\* declare the same name emits exactly one duplicate-name warning and leaves
\* that name resolving to the absolute path of the node visited later.
C5_OneWarningLastWins ==
  CollectedIntoEmpty =>
    \A n \in TreeNames(out.arg) :
      ExactlyOneDuplicate(out.arg, n) =>
        /\ Len(out.warn) = 1
        /\ MapHas(namedRoutesMap, n)
        /\ namedRoutesMap[n].absolutePath = VisitsNamed(out.arg, n)[2].absolutePath

RECURSIVE AncestorPrefix(_, _)
\* The declared paths chain[1..i] of the ancestors, each terminated by the
\* separator, restarting at an ancestor whose declared path starts with it.
AncestorPrefix(chain, i) ==
  IF i = 0 THEN <<>>
  ELSE LET p == chain[i][1]
           base == IF startsWith(p, "/") THEN p ELSE AncestorPrefix(chain, i - 1) \o p
       IN IF endsWith(p, "/") THEN base ELSE base \o <<"/">>

\* The composition the specification states for a node with declared-path
\* chain `chain` (root first, the node's own path last).
ComposedPath(chain) ==
  LET own == chain[Len(chain)][1] IN
  IF startsWith(own, "/") THEN own ELSE AncestorPrefix(chain, Len(chain) - 1) \o own

AllDeclared(chain) == \A i \in 1..Len(chain) : chain[i] # None
UniqueNames(routes) == \A n \in TreeNames(routes) : Len(VisitsNamed(routes, n)) = 1

\* C6: for a route tree with unique names, the absolute path registered for
\* each named node is the concatenation of its ancestors' declared paths, each
\* terminated by a separator, followed by its own declared path, restarting at
\* a node whose declared path starts with the separator.
C6_RegisteredPathIsComposition ==
  (CollectedIntoEmpty /\ UniqueNames(out.arg)) =>
    \A i \in 1..Len(NamedVisits(out.arg)) :
      LET v == NamedVisits(out.arg)[i] IN
      AllDeclared(v.chain) =>
        /\ MapHas(namedRoutesMap, v.name[1])
        /\ namedRoutesMap[v.name[1]].absolutePath = ComposedPath(v.chain)

\* The chain reported by the router has no last identifier with a registry entry.
NoEntryFor(matches, map) ==
  \/ matches = None
  \/ matches[1] = <<>>
  \/ ~MapHas(map, matches[1][Len(matches[1])])

\* C7: reverse lookup never raises: for a matched-route chain (empty or
\* unavailable included) whose last identifier has no registry entry,
\* useNamedLocation returns the location with no name and leaves the registry
\* unchanged.
C7_ReverseLookupMissIsUndefined ==
  (out.op = "useNamedLocation" /\ NoEntryFor(out.arg, before)) =>
    /\ out.thrown = None
    /\ out.ret = Some([location |-> CurrentLocation, name |-> None])
    /\ namedRoutesMap = before

\* A lookup of a chain whose last identifier misses a non-empty registry.
C7_Witness ==
  /\ out.op = "useNamedLocation"
  /\ out.arg # None /\ out.arg[1] # <<>>
  /\ before # EmptyMap
  /\ NoEntryFor(out.arg, before)
  /\ out.ret = Some([location |-> CurrentLocation, name |-> None])

C9_ResolvesOnlyAfterEffect ==
  /\ (NavigatedByName /\ isNamedTo(out.arg) /\ collections = 0 /\ pendingEffect # None
        /\ out.arg.name \in DeclaredNames(namedRoutesOf(pendingEffect[1])))
       => out.thrown = Some(RouteNameNotFound(out.arg.name))
  /\ (NavigatedByName /\ isNamedTo(out.arg) /\ collections = 1 /\ lastCollect # None
        /\ lastCollect[1].by = "NamedRoutes effect"
        /\ out.arg.name \in DeclaredNames(lastCollect[1].routes))
       => out.thrown # Some(RouteNameNotFound(out.arg.name))
  /\ out.op = "createNamedBrowserRouter"
       => namedRoutesMap = collectRouteNames(before, out.arg).map

\* The nodes of the tree that the chain of matched ids leads to (one or none).
MatchedNodes(routes, chain) == SelectSeq(Visit(routes), LAMBDA v : v.ids = chain)

\* C10: after collecting a tree, the reverse lookup of a chain ending in
\* identifier k returns name n if and only if the node at index path k of that
\* tree is a named node with name n, and no name when that node is unnamed.
C10_ReverseLookupIsPositional ==
  (out.op = "useNamedLocation" /\ out.arg # None /\ lastCollect # None) =>
    \A i \in 1..Len(MatchedNodes(lastCollect[1].routes, out.arg[1])) :
      LET v == MatchedNodes(lastCollect[1].routes, out.arg[1])[i] IN
      out.ret[1].name = IF TruthyName(v.name) THEN v.name ELSE None

\* A declared path, an absent one read as the empty path.
DeclaredOrEmpty(path) == IF path = None THEN Some(<<>>) ELSE path

RECURSIVE AbsentAsEmpty(_)
\* A chain of declared paths with every absent path read as the empty path.
AbsentAsEmpty(chain) ==
  IF chain = <<>> THEN <<>>
  ELSE <<DeclaredOrEmpty(Head(chain))>> \o AbsentAsEmpty(Tail(chain))

\* C11: a node that declares no path composes like a node declaring the empty
\* path: after collecting a tree with unique names into an empty registry, the
\* absolute path registered for a named node that has such a node on its chain
\* (itself included) is the composition of the chain with every absent path
\* read as empty, so that the pathless node contributes nothing but the
\* separator.
C11_AbsentPathIsEmptyPath ==
  (CollectedIntoEmpty /\ UniqueNames(out.arg)) =>
    \A i \in 1..Len(NamedVisits(out.arg)) :
      LET v == NamedVisits(out.arg)[i] IN
      ~AllDeclared(v.chain) =>
        /\ MapHas(namedRoutesMap, v.name[1])
        /\ namedRoutesMap[v.name[1]].absolutePath = ComposedPath(AbsentAsEmpty(v.chain))

\* The navigation primitive was called once and nothing was raised, or it was
\* not called and one error was raised.
OneCallOrOneError ==
  \/ Len(out.navigate) = 1 /\ out.thrown = None
  \/ out.navigate = <<>> /\ out.thrown # None

\* C12: a navigation whose target carries a name field, whatever string the
\* name is, never hands the target unresolved to the navigation primitive; a
\* navigation to a literal path hands exactly that target with the caller's
\* options; the registry is left unchanged, and each call ends in exactly one
\* call of the primitive or in one raised error.
C12_DispatchOnTargetShape ==
  (out.op = "navigate") =>
    /\ OneCallOrOneError
    /\ namedRoutesMap = before
    /\ NavigatedByName =>
         \A i \in 1..Len(out.navigate) :
           /\ "name" \notin DOMAIN out.navigate[i].to
           /\ MapHas(before, out.arg.name)
           /\ out.navigate[i].options = out.options
    /\ ~NavigatedByName =>
         /\ out.navigate = << [to |-> out.arg, options |-> out.options] >>
         /\ out.thrown = None

====
